---- MODULE Spec2Model ----
(***************************************************************************)
(* Table-migration reconciliation engine of ucx                            *)
(* (src/databricks/labs/ucx/hive_metastore/table_migration_status.py).     *)
(*                                                                         *)
(* Strings are sequences of one-character strings, so that str.lower(),    *)
(* str.split(".") and the f-string joins are computed character by         *)
(* character.  Python's None is the one-element sequence <<"None">>, which *)
(* is no string of the model because "None" is not a character.            *)
(***************************************************************************)
EXTENDS Integers, Sequences, FiniteSets, TLC

VARIABLES
    tables,     \* argument of TableMigrationIndex.__init__: a sequence of records
    index,      \* TableMigrationIndex._index: (src_schema, src_table) -> record
    ipc,        \* "new" before TableMigrationIndex.__init__ has run, then "ready"
    call,       \* the last lookup made on the index, with its result
    query,      \* live check: the (schema, table) asked about and the store's answer
    answer,     \* live check: what TableMigrationStatusRefresher.is_migrated did
    inventory,  \* TablesCrawler.snapshot(): the legacy tables, in inventory order
    store,      \* the metadata store: what its catalog, schema and table listings answer
    cpc,        \* position of _crawl: "start", "loop", "done" or "raised"
    clock,      \* the wall clock; every step of the pass takes time
    seen_tables,   \* what get_seen_tables returned to this pass
    remote_calls,  \* the listings get_seen_tables asked of the metadata store, in order
    reverse_seen,  \* _crawl's reverse_seen
    timestamp,  \* _crawl's timestamp
    pos,        \* number of inventory tables _crawl has taken from all_tables
    emitted,    \* the records _crawl has yielded, in order
    probes,     \* per inventory table taken: the live check's answer, NoAnswer if not made
    raised,     \* the exception that left _crawl, None if none did
    persisted,  \* the refresher's backing table: the records stored, NoTable before any
    published,  \* the TableMigrationIndex instances index() has returned, in order
    passes,     \* the refresh passes run through snapshot(), with inputs and outcome
    rcall,      \* the refresher's last index() call and how it ended
    heap,       \* the TableMigrationStatus objects the snapshots returned, by address
    readers     \* per concurrent reader of the index: where it is in its lookup

ivars == <<tables, index, ipc, call>>

pvars == <<query, answer>>

cvars == <<inventory, store, cpc, clock, seen_tables, remote_calls, reverse_seen,
           timestamp, pos, emitted, probes, raised>>

rvars == <<persisted, published, passes, rcall, heap>>

tvars == <<readers>>

vars == <<ivars, pvars, cvars, rvars, tvars>>

(***************************************************************************)
(* Strings                                                                 *)
(***************************************************************************)
None == <<"None">>

Dot == "."

\* str.lower() on one character, for the characters of the model
LowerChar(c) ==
    CASE c = "C" -> "c"
      [] c = "D" -> "d"
      [] c = "H" -> "h"
      [] c = "N" -> "n"
      [] c = "S" -> "s"
      [] c = "T" -> "t"
      [] c = "U" -> "u"
      [] OTHER -> c

\* str.lower()
Lower(s) == [i \in DOMAIN s |-> LowerChar(s[i])]

\* f"{a}.{b}.{c}"
Dotted3(a, b, c) == a \o <<Dot>> \o b \o <<Dot>> \o c

\* Python truthiness of an Optional[str]: None and "" are falsy.
Truthy(s) == s # None /\ s # <<>>

(***************************************************************************)
(* TableMigrationStatus                                                    *)
(***************************************************************************)
TableMigrationStatus(src_schema, src_table, dst_catalog, dst_schema, dst_table, update_ts) ==
    [src_schema |-> src_schema, src_table |-> src_table,
     dst_catalog |-> dst_catalog, dst_schema |-> dst_schema, dst_table |-> dst_table,
     update_ts |-> update_ts]

\* "{x}" in an f-string: str(x), which is "None" for None
Format(x) == IF x = None THEN <<"N", "o", "n", "e">> ELSE x

\* destination() without the lower-casing.
TableMigrationStatus_destination_NoLower(r) ==
    Dotted3(Format(r.dst_catalog), Format(r.dst_schema), Format(r.dst_table))

\* destination(): f"{self.dst_catalog}.{self.dst_schema}.{self.dst_table}".lower()
TableMigrationStatus_destination(r) ==
    Lower(Dotted3(Format(r.dst_catalog), Format(r.dst_schema), Format(r.dst_table)))

\* What a lookup returns for Python's None where a record is expected.
NoStatus == [none |-> TRUE]

(***************************************************************************)
(* TableMigrationIndex                                                     *)
(***************************************************************************)
\* The position whose record a dict comprehension keeps for key k: the last.
LastWithKey(ts, k) ==
    CHOOSE i \in DOMAIN ts :
        /\ <<ts[i].src_schema, ts[i].src_table>> = k
        /\ \A j \in DOMAIN ts : <<ts[j].src_schema, ts[j].src_table>> = k => j <= i

\* __init__: self._index = {(ms.src_schema, ms.src_table): ms for ms in tables}
TableMigrationIndex_init(ts) ==
    [k \in {<<ts[i].src_schema, ts[i].src_table>> : i \in DOMAIN ts} |-> ts[LastWithKey(ts, k)]]

\* Index_get without the dst_table test: a known but unmigrated record is returned.
Index_get_NoDstCheck(ix, schema, table) ==
    LET k == <<Lower(schema), Lower(table)>> IN
    IF k \notin DOMAIN ix THEN NoStatus ELSE ix[k]

\* Index_get without the lower-casing of its arguments.
Index_get_NoLower(ix, schema, table) ==
    LET k == <<schema, table>> IN
    IF k \notin DOMAIN ix THEN NoStatus
    ELSE IF ~Truthy(ix[k].dst_table) THEN NoStatus
    ELSE ix[k]

\* get: the record under the lower-cased key, unless it is missing or has no dst_table
Index_get(ix, schema, table) ==
    LET k == <<Lower(schema), Lower(table)>> IN
    IF k \notin DOMAIN ix THEN NoStatus
    ELSE IF ~Truthy(ix[k].dst_table) THEN NoStatus
    ELSE ix[k]

\* is_migrated: self.get(schema, table) is not None
Index_is_migrated(ix, schema, table) == Index_get(ix, schema, table) # NoStatus

\* A lookup that takes the record out of the mapping (dict.pop for dict.get).
Index_after_lookup_Pop(ix, schema, table) ==
    [k \in DOMAIN ix \ {<<Lower(schema), Lower(table)>>} |-> ix[k]]

\* self._index once get has run: dict.get neither inserts nor removes, and get
\* assigns nothing
Index_after_lookup(ix, schema, table) == ix

\* snapshot: self._index.keys()
Index_snapshot(ix) == DOMAIN ix

(***************************************************************************)
(* The parts of the state a specification does not use stay idle           *)
(***************************************************************************)
NoCall == [op |-> "none"]

NoAnswer == [kind |-> "none"]

IdleIndex == tables = <<>> /\ index = <<>> /\ ipc = "idle" /\ call = NoCall

IdleProbe == query = <<>> /\ answer = NoAnswer

\* _crawl is not running step by step.
IdlePass ==
    /\ cpc = "idle"
    /\ seen_tables = <<>> /\ remote_calls = <<>> /\ reverse_seen = <<>> /\ timestamp = None
    /\ pos = 0 /\ emitted = <<>> /\ probes = <<>> /\ raised = None

IdleCrawl == inventory = <<>> /\ store = <<>> /\ clock = 0 /\ IdlePass

\* The refresher's backing table: missing, or holding records.
NoTable == [exists |-> FALSE]

StoredTable(records) == [exists |-> TRUE, records |-> records]

IdleRefresh ==
    persisted = NoTable /\ published = <<>> /\ passes = <<>> /\ rcall = NoCall /\ heap = <<>>

IdleReaders == readers = <<>>

(***************************************************************************)
(* Inputs of the index specification                                       *)
(***************************************************************************)
MaxRecords == 2

\* the lookups made on one index, by whichever readers
MaxCalls == 3

SchemaNames == {<<"s">>, <<"S">>}

TableNames == {<<"t">>, <<"T">>}

\* dst_table as persisted rows can carry it: missing, empty or a name.
DstTables == {None, <<>>, <<"t">>}

InputRecords ==
    {TableMigrationStatus(s, t,
                          IF d = None THEN None ELSE <<"c">>,
                          IF d = None THEN None ELSE <<"s">>,
                          d, None) :
        s \in SchemaNames, t \in TableNames, d \in DstTables}

SeqsUpTo(S, n) == UNION {[1..m -> S] : m \in 0..n}

InitIndex ==
    /\ tables \in SeqsUpTo(InputRecords, MaxRecords)
    /\ index = <<>>
    /\ ipc = "new"
    /\ call = NoCall
    /\ IdleProbe
    /\ IdleCrawl
    /\ IdleRefresh
    /\ IdleReaders

\* TableMigrationIndex(tables)
Construct ==
    /\ ipc = "new"
    /\ index' = TableMigrationIndex_init(tables)
    /\ ipc' = "ready"
    /\ UNCHANGED <<tables, call, pvars, cvars, rvars, tvars>>

\* The number of lookups made on the index so far.
CallsMade == IF call = NoCall THEN 0 ELSE call.nth

\* index.is_migrated(schema, table)
CallIsMigrated ==
    /\ ipc = "ready"
    /\ CallsMade < MaxCalls
    /\ \E s \in SchemaNames, t \in TableNames :
         /\ call' = [op |-> "is_migrated", schema |-> s, table |-> t,
                     result |-> Index_is_migrated(index, s, t), nth |-> CallsMade + 1]
         /\ index' = Index_after_lookup(index, s, t)
    /\ UNCHANGED <<tables, ipc, pvars, cvars, rvars, tvars>>

\* index.get(schema, table)
CallGet ==
    /\ ipc = "ready"
    /\ CallsMade < MaxCalls
    /\ \E s \in SchemaNames, t \in TableNames :
         /\ call' = [op |-> "get", schema |-> s, table |-> t,
                     result |-> Index_get(index, s, t), nth |-> CallsMade + 1]
         /\ index' = Index_after_lookup(index, s, t)
    /\ UNCHANGED <<tables, ipc, pvars, cvars, rvars, tvars>>

\* index.snapshot()
CallSnapshot ==
    /\ ipc = "ready"
    /\ CallsMade < MaxCalls
    /\ call' = [op |-> "snapshot", result |-> Index_snapshot(index), nth |-> CallsMade + 1]
    /\ UNCHANGED <<tables, index, ipc, pvars, cvars, rvars, tvars>>

\* The destination fields of the records destination() is called on: unset, lower
\* case and upper case.
DestinationRecords ==
    {TableMigrationStatus(<<"s">>, <<"t">>, c, sc, t, None) :
        c \in {None, <<"c">>, <<"C">>}, sc \in {None, <<"s">>, <<"S">>},
        t \in {None, <<"t">>, <<"T", "u">>}}

\* record.destination(), on a record of any provenance
CallDestination ==
    /\ ipc = "ready"
    /\ CallsMade < MaxCalls
    /\ \E r \in DestinationRecords :
         call' = [op |-> "destination", record |-> r,
                  result |-> TableMigrationStatus_destination(r), nth |-> CallsMade + 1]
    /\ UNCHANGED <<tables, index, ipc, pvars, cvars, rvars, tvars>>

NextIndex == Construct \/ CallIsMigrated \/ CallGet \/ CallSnapshot \/ CallDestination

SpecIndex == InitIndex /\ [][NextIndex]_vars

(***************************************************************************)
(* Concurrent readers of one TableMigrationIndex                           *)
(***************************************************************************)
\* the threads that read one index at the same time
MaxReaders == 2

Readers == 1..MaxReaders

\* get, line 66: dst = self._index.get((schema.lower(), table.lower()))
Index_get_lookup(ix, schema, table) ==
    LET k == <<Lower(schema), Lower(table)>> IN
    IF k \in DOMAIN ix THEN ix[k] ELSE NoStatus

\* get, lines 67-69: None if dst is None or has no dst_table, dst otherwise
Index_get_return(dst) ==
    IF dst = NoStatus THEN NoStatus
    ELSE IF ~Truthy(dst.dst_table) THEN NoStatus
    ELSE dst

\* A reader that is in no call.
NotReading == [pc |-> "idle"]

\* The readers that have read the mapping and not returned yet, r aside.
ReadingBeside(r) == {q \in Readers \ {r} : readers[q].pc = "fetched"}

InitReaders ==
    /\ tables \in SeqsUpTo(InputRecords, MaxRecords)
    /\ index = <<>>
    /\ ipc = "new"
    /\ call = NoCall
    /\ readers = [r \in Readers |-> NotReading]
    /\ IdleProbe
    /\ IdleCrawl
    /\ IdleRefresh

\* A reader enters get or is_migrated, which calls get, and reads the mapping
\* (line 66), wherever the other readers are in their calls.
ReaderLooksUp ==
    /\ ipc = "ready"
    /\ \E r \in Readers, op \in {"get", "is_migrated"}, s \in SchemaNames, t \in TableNames :
         /\ readers[r].pc \in {"idle", "done"}
         /\ readers' = [readers EXCEPT ![r] =
                           [pc |-> "fetched", op |-> op, schema |-> s, table |-> t,
                            dst |-> Index_get_lookup(index, s, t),
                            amid |-> ReadingBeside(r)]]
         /\ index' = Index_after_lookup(index, s, t)
    /\ UNCHANGED <<tables, ipc, call, pvars, cvars, rvars>>

\* The reader tests what it read and returns (lines 67-69, and line 62 for
\* is_migrated).
ReaderReturns ==
    /\ \E r \in Readers :
         /\ readers[r].pc = "fetched"
         /\ readers' = [readers EXCEPT ![r] =
                           [pc |-> "done", op |-> readers[r].op,
                            schema |-> readers[r].schema, table |-> readers[r].table,
                            amid |-> readers[r].amid,
                            result |-> IF readers[r].op = "get"
                                       THEN Index_get_return(readers[r].dst)
                                       ELSE Index_get_return(readers[r].dst) # NoStatus]]
    /\ UNCHANGED <<tables, index, ipc, call, pvars, cvars, rvars>>

\* A reader calls snapshot().
ReaderSnapshots ==
    /\ ipc = "ready"
    /\ \E r \in Readers :
         /\ readers[r].pc \in {"idle", "done"}
         /\ readers' = [readers EXCEPT ![r] =
                           [pc |-> "done", op |-> "snapshot", amid |-> ReadingBeside(r),
                            result |-> Index_snapshot(index)]]
    /\ UNCHANGED <<tables, index, ipc, call, pvars, cvars, rvars>>

NextReaders == Construct \/ ReaderLooksUp \/ ReaderReturns \/ ReaderSnapshots

SpecReaders == InitReaders /\ [][NextReaders]_vars

(***************************************************************************)
(* TableMigrationStatusRefresher.is_migrated: the live check               *)
(***************************************************************************)
\* "does not have property"
DoesNotHaveProperty ==
    <<"d", "o", "e", "s", " ", "n", "o", "t", " ", "h", "a", "v", "e", " ",
      "p", "r", "o", "p", "e", "r", "t", "y">>

\* needle in haystack, for strings
Contains(haystack, needle) ==
    \E i \in 1..(Len(haystack) - Len(needle) + 1) :
        SubSeq(haystack, i, i + Len(needle) - 1) = needle

\* What calling a function does: it returns a value or raises an exception.
Return(v) == [kind |-> "return", value |-> v]

Raise(e) == [kind |-> "raise", error |-> e]

\* A remote listing or query: the items it yields and how it ends, "ok" or with the
\* exception raised after the last item yielded (at once, when there is none).
Response(items, end) == [items |-> items, end |-> end]

\* is_migrated in which a row without the marker ends the loop instead of being skipped.
Refresher_is_migrated_BreakOnAbsent(out) ==
    IF out.items # <<>>
    THEN Return(~Contains(out.items[1], DoesNotHaveProperty))
    ELSE CASE out.end = "ok" -> Return(FALSE)
           [] out.end = "NotFound" -> Return(TRUE)
           [] OTHER -> Raise(out.end)

\* is_migrated in which a vanished source table counts as not migrated.
Refresher_is_migrated_NotFoundFalse(out) ==
    IF \E i \in DOMAIN out.items : ~Contains(out.items[i], DoesNotHaveProperty)
    THEN Return(TRUE)
    ELSE CASE out.end = "ok" -> Return(FALSE)
           [] out.end = "NotFound" -> Return(FALSE)
           [] OTHER -> Raise(out.end)

\* The loop over the rows, from row i on.
RECURSIVE RowsFrom(_, _)
RowsFrom(out, i) ==
    IF i > Len(out.items)
    THEN CASE out.end = "ok" -> Return(FALSE)
           [] out.end = "NotFound" -> Return(TRUE)
           [] OTHER -> Raise(out.end)
    ELSE IF Contains(out.items[i], DoesNotHaveProperty)
         THEN RowsFrom(out, i + 1)
         ELSE Return(TRUE)

\* is_migrated(schema, table), given the legacy store's answer to
\* SHOW TBLPROPERTIES schema.table ('upgraded_to')
Refresher_is_migrated(out) == RowsFrom(out, 1)

(***************************************************************************)
(* Inputs of the live-check specification                                  *)
(***************************************************************************)
MaxRows == 2

\* "Table does not have property: upgraded_to"
AbsentMessage ==
    <<"T", "a", "b", "l", "e", " ">> \o DoesNotHaveProperty \o
    <<":", " ", "u", "p", "g", "r", "a", "d", "e", "d", "_", "t", "o">>

\* the value of the marker: the destination the table was upgraded to
MarkerValue == <<"c", ".", "s", ".", "t">>

\* a value that shares words with the message without containing it
NearMiss == <<"d", "o", "e", "s", " ", "n", "o", "t", " ", "h", "a", "v", "e">>

RowValues == {AbsentMessage, MarkerValue, NearMiss}

QueryEnds == {"ok", "NotFound", "DatabricksError"}

QueryResponses ==
    {Response(rows, e) : rows \in SeqsUpTo(RowValues, MaxRows), e \in QueryEnds}

InitProbe ==
    /\ IdleIndex
    /\ IdleCrawl
    /\ IdleRefresh
    /\ IdleReaders
    /\ query \in {[schema |-> s, table |-> t, response |-> r] :
                    s \in {<<"s">>}, t \in {<<"t">>, <<"u">>}, r \in QueryResponses}
    /\ answer = NoAnswer

\* refresher.is_migrated(query.schema, query.table)
LiveMigrationCheck ==
    /\ answer = NoAnswer
    /\ answer' = Refresher_is_migrated(query.response)
    /\ UNCHANGED <<query, ivars, cvars, rvars, tvars>>

NextProbe == LiveMigrationCheck

SpecProbe == InitProbe /\ [][NextProbe]_vars

(***************************************************************************)
(* Dictionaries keep insertion order: a sequence of <<key, value>> pairs   *)
(* with distinct keys.                                                     *)
(***************************************************************************)
DictHas(d, k) == \E i \in DOMAIN d : d[i][1] = k

DictGet(d, k) == d[CHOOSE i \in DOMAIN d : d[i][1] = k][2]

\* d[k] = v: an existing key keeps its place, a new key goes last
DictSet(d, k, v) ==
    IF DictHas(d, k)
    THEN [i \in DOMAIN d |-> IF d[i][1] = k THEN <<k, v>> ELSE d[i]]
    ELSE Append(d, <<k, v>>)

\* Python truthiness of an Optional[dict]: None and {} are falsy.
NoDict == << <<None, None>> >>

TruthyDict(d) == d # NoDict /\ d # <<>>

(***************************************************************************)
(* str.split(".") and str(timestamp)                                       *)
(***************************************************************************)
RECURSIVE Split(_)
Split(s) ==
    IF \A i \in DOMAIN s : s[i] # Dot
    THEN <<s>>
    ELSE LET i == CHOOSE j \in DOMAIN s : s[j] = Dot /\ \A l \in 1..(j - 1) : s[l] # Dot
         IN <<SubSeq(s, 1, i - 1)>> \o Split(SubSeq(s, i + 1, Len(s)))

Digits == <<"0", "1", "2", "3", "4", "5", "6", "7", "8", "9">>

RECURSIVE StrInt(_)
StrInt(n) == IF n < 10 THEN <<Digits[n + 1]>> ELSE StrInt(n \div 10) \o <<Digits[(n % 10) + 1]>>

\* str() of a float holding a whole number of seconds
Str(n) == StrInt(n) \o <<Dot, "0">>

(***************************************************************************)
(* TableView and the legacy tables of the inventory                        *)
(***************************************************************************)
\* TableView.key
TableView_key(catalog, schema, name) == Lower(Dotted3(catalog, schema, name))

\* Table.key of the inventory's tables
Table_key(table) == TableView_key(table.catalog, table.database, table.name)

(***************************************************************************)
(* The Seen-Table Resolver: get_seen_tables                                *)
(***************************************************************************)
UpgradedFrom ==
    <<"u", "p", "g", "r", "a", "d", "e", "d", "_", "f", "r", "o", "m">>

\* _skip_catalog_types
skip_catalog_types == {"SYSTEM_CATALOG"}

\* The enumeration of the catalogs that skips none.
iter_catalogs_NoSkip(st) == st.items

\* _iter_catalogs: the catalogs listed before the listing ends or fails, without
\* those of a skipped type.  Any DatabricksError ends the enumeration quietly.
iter_catalogs(st) ==
    SelectSeq(st.items, LAMBDA c : c.catalog_type \notin skip_catalog_types)

\* _iter_schemas: catalog after catalog, the schemas its listing yields; a listing
\* that fails (NotFound or another DatabricksError) ends that catalog only.
RECURSIVE iter_schemas(_)
iter_schemas(cats) ==
    IF cats = <<>> THEN <<>>
    ELSE LET c == Head(cats) IN
         IF c.name = None THEN iter_schemas(Tail(cats))
         ELSE c.schemas.items \o iter_schemas(Tail(cats))

\* The loop over one schema's tables that keeps the first value recorded for a key.
RECURSIVE seen_from_tables_FirstWins(_, _)
seen_from_tables_FirstWins(seen, ts) ==
    IF ts = <<>> THEN seen
    ELSE LET table == Head(ts) IN
         IF ~TruthyDict(table.properties) THEN seen_from_tables_FirstWins(seen, Tail(ts))
         ELSE IF ~DictHas(table.properties, UpgradedFrom)
         THEN seen_from_tables_FirstWins(seen, Tail(ts))
         ELSE IF ~Truthy(table.full_name) THEN seen_from_tables_FirstWins(seen, Tail(ts))
         ELSE IF DictHas(seen, Lower(table.full_name))
         THEN seen_from_tables_FirstWins(seen, Tail(ts))
         ELSE seen_from_tables_FirstWins(
                  DictSet(seen, Lower(table.full_name),
                          Lower(DictGet(table.properties, UpgradedFrom))),
                  Tail(ts))

\* The loop over one schema's tables that gives up the schema at an object without
\* a full name.
RECURSIVE seen_from_tables_NamelessEnds(_, _)
seen_from_tables_NamelessEnds(seen, ts) ==
    IF ts = <<>> THEN seen
    ELSE LET table == Head(ts) IN
         IF ~TruthyDict(table.properties) THEN seen_from_tables_NamelessEnds(seen, Tail(ts))
         ELSE IF ~DictHas(table.properties, UpgradedFrom)
         THEN seen_from_tables_NamelessEnds(seen, Tail(ts))
         ELSE IF ~Truthy(table.full_name) THEN seen
         ELSE seen_from_tables_NamelessEnds(
                  DictSet(seen, Lower(table.full_name),
                          Lower(DictGet(table.properties, UpgradedFrom))),
                  Tail(ts))

\* The loop over one schema's tables (lines 108-116).
RECURSIVE seen_from_tables(_, _)
seen_from_tables(seen, ts) ==
    IF ts = <<>> THEN seen
    ELSE LET table == Head(ts) IN
         IF ~TruthyDict(table.properties) THEN seen_from_tables(seen, Tail(ts))
         ELSE IF ~DictHas(table.properties, UpgradedFrom) THEN seen_from_tables(seen, Tail(ts))
         ELSE IF ~Truthy(table.full_name) THEN seen_from_tables(seen, Tail(ts))
         ELSE seen_from_tables(
                  DictSet(seen, Lower(table.full_name),
                          Lower(DictGet(table.properties, UpgradedFrom))),
                  Tail(ts))

\* The loop over the schemas in which a failed table listing ends the scan.
RECURSIVE seen_from_schemas_StopOnFailure(_, _)
seen_from_schemas_StopOnFailure(seen, schemas) ==
    IF schemas = <<>> THEN seen
    ELSE LET schema == Head(schemas) IN
         IF schema.catalog_name = None \/ schema.name = None
         THEN seen_from_schemas_StopOnFailure(seen, Tail(schemas))
         ELSE IF schema.tables.end # "ok" THEN seen
         ELSE seen_from_schemas_StopOnFailure(seen_from_tables(seen, schema.tables.items),
                                              Tail(schemas))

\* The loop over the schemas that reads a table listing as it comes: what a listing
\* yields before it fails is recorded.
RECURSIVE seen_from_schemas_KeepPartial(_, _)
seen_from_schemas_KeepPartial(seen, schemas) ==
    IF schemas = <<>> THEN seen
    ELSE LET schema == Head(schemas) IN
         IF schema.catalog_name = None \/ schema.name = None
         THEN seen_from_schemas_KeepPartial(seen, Tail(schemas))
         ELSE seen_from_schemas_KeepPartial(seen_from_tables(seen, schema.tables.items),
                                            Tail(schemas))

\* The loop over the schemas (lines 96-116): list(ws.tables.list(...)) fails as a
\* whole when the listing fails, and the schema is then skipped.
RECURSIVE seen_from_schemas(_, _)
seen_from_schemas(seen, schemas) ==
    IF schemas = <<>> THEN seen
    ELSE LET schema == Head(schemas) IN
         IF schema.catalog_name = None \/ schema.name = None
         THEN seen_from_schemas(seen, Tail(schemas))
         ELSE IF schema.tables.end # "ok"
         THEN seen_from_schemas(seen, Tail(schemas))
         ELSE seen_from_schemas(seen_from_tables(seen, schema.tables.items), Tail(schemas))

get_seen_tables(st) == seen_from_schemas(<<>>, iter_schemas(iter_catalogs(st)))

\* The listings the scan asks for: ws.catalogs.list() (line 164), ws.schemas.list of
\* every catalog _iter_catalogs yields (line 176) and ws.tables.list of every
\* schema _iter_schemas yields (line 101); each call is logged with the object it
\* is about.
catalogs_list_calls == <<[op |-> "catalogs.list"]>>

schemas_list_calls(cats) ==
    [i \in DOMAIN SelectSeq(cats, LAMBDA c : c.name # None) |->
        [op |-> "schemas.list", catalog |-> SelectSeq(cats, LAMBDA c : c.name # None)[i]]]

tables_list_calls(schemas) ==
    LET listed == SelectSeq(schemas, LAMBDA sc : sc.catalog_name # None /\ sc.name # None)
    IN [i \in DOMAIN listed |-> [op |-> "tables.list", schema |-> listed[i]]]

\* The generators are consumed lazily: the schemas of a catalog are listed when the
\* loop of get_seen_tables comes to it, and the tables of each schema that listing
\* yields are listed before the schemas of the next catalog are asked for.
RECURSIVE listing_calls_from(_)
listing_calls_from(cats) ==
    IF cats = <<>> THEN <<>>
    ELSE schemas_list_calls(<<Head(cats)>>) \o tables_list_calls(iter_schemas(<<Head(cats)>>))
             \o listing_calls_from(Tail(cats))

\* The listings of one scan, in the order they are made.
listing_calls(st) == catalogs_list_calls \o listing_calls_from(iter_catalogs(st))

(***************************************************************************)
(* TableMigrationStatusRefresher._crawl                                    *)
(***************************************************************************)
\* {v: k for k, v in seen.items()}
RECURSIVE invert_from(_, _)
invert_from(rev, items) ==
    IF items = <<>> THEN rev
    ELSE invert_from(DictSet(rev, Head(items)[2], Head(items)[1]), Tail(items))

\* The inversion that keeps the first destination met for a legacy key.
RECURSIVE invert_FirstWins(_)
invert_FirstWins(seen) ==
    IF seen = <<>> THEN <<>>
    ELSE LET rest == invert_FirstWins(SubSeq(seen, 1, Len(seen) - 1))
             e == seen[Len(seen)]
         IN IF DictHas(rest, e[2]) THEN rest ELSE Append(rest, <<e[2], e[1]>>)

invert(seen) == invert_from(<<>>, seen)

\* The test of line 147 before its call of is_migrated.
is_candidate(table, rev) == DictHas(rev, Table_key(table))

\* The query is_migrated(src_schema, src_table) sends to the legacy store (line 121).
probe_calls(table) ==
    <<[op |-> "fetch", schema |-> Lower(table.database), table |-> Lower(table.name)]>>

\* A loop iteration that computes the reverse map itself: the scan is made again
\* before the test of line 147.
iteration_calls_Rescan(st, table, rev) ==
    listing_calls(st) \o (IF is_candidate(table, rev) THEN probe_calls(table) ELSE <<>>)

\* The remote calls of one loop iteration: `table.key in reverse_seen and
\* self.is_migrated(...)` asks the legacy store only when the key is in the map, and
\* no metadata-store listing is made in the loop.
iteration_calls(st, table, rev) ==
    IF is_candidate(table, rev) THEN probe_calls(table) ELSE <<>>

\* The record of one loop iteration that trusts the bulk scan without the live check.
table_status_NoProbe(table, rev, ts, ans) ==
    LET src_schema == Lower(table.database)
        src_table == Lower(table.name)
        status == TableMigrationStatus(src_schema, src_table, None, None, None, Str(ts))
    IN
    IF is_candidate(table, rev)
    THEN LET parts == Split(DictGet(rev, Table_key(table))) IN
         IF Len(parts) = 3
         THEN [status EXCEPT !.dst_catalog = parts[1], !.dst_schema = parts[2],
                             !.dst_table = parts[3]]
         ELSE status
    ELSE status

\* The record of one loop iteration that takes the first parts of the destination,
\* however many there are.
table_status_NoPartCheck(table, rev, ts, ans) ==
    LET src_schema == Lower(table.database)
        src_table == Lower(table.name)
        status == TableMigrationStatus(src_schema, src_table, None, None, None, Str(ts))
    IN
    IF is_candidate(table, rev) /\ ans = Return(TRUE)
    THEN LET parts == Split(DictGet(rev, Table_key(table))) IN
         [status EXCEPT !.dst_catalog = parts[1],
                        !.dst_schema = IF Len(parts) >= 2 THEN parts[2] ELSE None,
                        !.dst_table = IF Len(parts) >= 3 THEN parts[3] ELSE None]
    ELSE status

\* The record of one loop iteration that names the table after its database.
table_status_NoTableName(table, rev, ts, ans) ==
    LET src_schema == Lower(table.database)
        src_table == Lower(table.database)
        status == TableMigrationStatus(src_schema, src_table, None, None, None, Str(ts))
    IN
    IF is_candidate(table, rev) /\ ans = Return(TRUE)
    THEN LET parts == Split(DictGet(rev, Table_key(table))) IN
         IF Len(parts) = 3
         THEN [status EXCEPT !.dst_catalog = parts[1], !.dst_schema = parts[2],
                             !.dst_table = parts[3]]
         ELSE status
    ELSE status

\* The record of one loop iteration that stamps the record only when it replaces it.
table_status_StampMigratedOnly(table, rev, ts, ans) ==
    LET src_schema == Lower(table.database)
        src_table == Lower(table.name)
        status == TableMigrationStatus(src_schema, src_table, None, None, None, None)
    IN
    IF is_candidate(table, rev) /\ ans = Return(TRUE)
    THEN LET parts == Split(DictGet(rev, Table_key(table))) IN
         IF Len(parts) = 3
         THEN [status EXCEPT !.dst_catalog = parts[1], !.dst_schema = parts[2],
                             !.dst_table = parts[3], !.update_ts = Str(ts)]
         ELSE status
    ELSE status

\* The record of one loop iteration that hands the timestamp over by position, as
\* the third field.
table_status_PositionalTimestamp(table, rev, ts, ans) ==
    LET src_schema == Lower(table.database)
        src_table == Lower(table.name)
        status == TableMigrationStatus(src_schema, src_table, Str(ts), None, None, None)
    IN
    IF is_candidate(table, rev) /\ ans = Return(TRUE)
    THEN LET parts == Split(DictGet(rev, Table_key(table))) IN
         IF Len(parts) = 3
         THEN [status EXCEPT !.dst_schema = parts[2], !.dst_table = parts[3]]
         ELSE status
    ELSE status

\* The record of one loop iteration that takes the schema from the third part of
\* the destination and the table from the second.
table_status_PartsSwapped(table, rev, ts, ans) ==
    LET src_schema == Lower(table.database)
        src_table == Lower(table.name)
        status == TableMigrationStatus(src_schema, src_table, None, None, None, Str(ts))
    IN
    IF is_candidate(table, rev) /\ ans = Return(TRUE)
    THEN LET parts == Split(DictGet(rev, Table_key(table))) IN
         IF Len(parts) = 3
         THEN [status EXCEPT !.dst_catalog = parts[1], !.dst_schema = parts[3],
                             !.dst_table = parts[2]]
         ELSE status
    ELSE status

\* The record of one loop iteration (lines 142-156), given the live check's answer
\* (NoAnswer when line 147 did not call it).
table_status(table, rev, ts, ans) ==
    LET src_schema == Lower(table.database)
        src_table == Lower(table.name)
        status == TableMigrationStatus(src_schema, src_table, None, None, None, Str(ts))
    IN
    IF is_candidate(table, rev) /\ ans = Return(TRUE)
    THEN LET parts == Split(DictGet(rev, Table_key(table))) IN
         IF Len(parts) = 3
         THEN [status EXCEPT !.dst_catalog = parts[1], !.dst_schema = parts[2],
                             !.dst_table = parts[3]]
         ELSE status
    ELSE status

(***************************************************************************)
(* Inputs of the refresh specification                                     *)
(***************************************************************************)
MaxInventory == 2

MaxNodes == 5

\* the catalog of the legacy metastore
LegacyCatalog == <<"h">>

LegacyTable(database, name) == [catalog |-> LegacyCatalog, database |-> database, name |-> name]

LegacyTables == {LegacyTable(<<"S">>, <<"T">>), LegacyTable(<<"s">>, <<"u">>)}

TableInfo(name, full_name, properties) ==
    [name |-> name, full_name |-> full_name, properties |-> properties]

\* c.s.t, upgraded from h.s.t
MigratedTable ==
    TableInfo(<<"t">>, <<"c", Dot, "s", Dot, "t">>,
              << <<UpgradedFrom, <<"h", Dot, "s", Dot, "t">> >> >>)

\* C.S.U, upgraded from H.S.U: upper case throughout
UpperCaseTable ==
    TableInfo(<<"U">>, <<"C", Dot, "S", Dot, "U">>,
              << <<UpgradedFrom, <<"H", Dot, "S", Dot, "U">> >> >>)

\* a full name of two parts, upgraded from h.s.t
TwoPartTable ==
    TableInfo(<<"t">>, <<"s", Dot, "t">>,
              << <<UpgradedFrom, <<"h", Dot, "s", Dot, "t">> >> >>)

\* no properties at all
PlainTable == TableInfo(<<"u">>, <<"c", Dot, "s", Dot, "u">>, NoDict)

\* properties, but not upgraded_from
OwnedTable ==
    TableInfo(<<"u">>, <<"c", Dot, "s", Dot, "u">>, << << <<"o">>, <<"u">> >> >>)

\* upgraded from h.s.u, but without a full name
NamelessTable ==
    TableInfo(<<"u">>, None, << <<UpgradedFrom, <<"h", Dot, "s", Dot, "u">> >> >>)

\* a full name of four parts, upgraded from h.s.u
FourPartTable ==
    TableInfo(<<"x">>, <<"c", Dot, "s", Dot, "t", Dot, "x">>,
              << <<UpgradedFrom, <<"h", Dot, "s", Dot, "u">> >> >>)

\* c.s.u, upgraded from h.s.t: the key of UpperCaseTable once lowered, another value
RemigratedTable ==
    TableInfo(<<"u">>, <<"c", Dot, "s", Dot, "u">>,
              << <<UpgradedFrom, <<"h", Dot, "s", Dot, "t">> >> >>)

\* a full name of three parts of which the last is empty, upgraded from h.s.u
TrailingDotTable ==
    TableInfo(<<"u">>, <<"c", Dot, "s", Dot>>,
              << <<UpgradedFrom, <<"h", Dot, "s", Dot, "u">> >> >>)

TableInfos ==
    {MigratedTable, UpperCaseTable, TwoPartTable, PlainTable, OwnedTable, NamelessTable,
     FourPartTable, RemigratedTable, TrailingDotTable}

ListingFailures == {"NotFound", "DatabricksError"}

SchemaInfo(tables_response) ==
    [catalog_name |-> <<"c">>, name |-> <<"s">>, tables |-> tables_response]

CatalogInfo(catalog_type, schemas_response) ==
    [name |-> <<"c">>, catalog_type |-> catalog_type, schemas |-> schemas_response]

CatalogTypes == {"MANAGED_CATALOG", "SYSTEM_CATALOG"}

\* The stores are enumerated by size: every catalog, schema and table counts as
\* one node, and so does the failure of a catalog or schema listing. A table
\* listing of any content may fail: list() then discards what was yielded.
SchemasOfSize(k) ==
    {SchemaInfo(Response(ts, e)) : ts \in [1..(k - 1) -> TableInfos],
                                   e \in {"ok"} \cup ListingFailures}

RECURSIVE SchemaSeqsOfSize(_)
SchemaSeqsOfSize(n) ==
    IF n = 0 THEN {<<>>}
    ELSE UNION {{<<sc>> \o rest : sc \in SchemasOfSize(k), rest \in SchemaSeqsOfSize(n - k)} :
                k \in 1..n}

SchemaListingsOfSize(n) ==
    {Response(ss, "ok") : ss \in SchemaSeqsOfSize(n)}
    \cup (IF n >= 1
          THEN {Response(ss, e) : ss \in SchemaSeqsOfSize(n - 1), e \in ListingFailures}
          ELSE {})

CatalogsOfSize(k) ==
    {CatalogInfo(ty, l) : ty \in CatalogTypes, l \in SchemaListingsOfSize(k - 1)}

RECURSIVE CatalogSeqsOfSize(_)
CatalogSeqsOfSize(n) ==
    IF n = 0 THEN {<<>>}
    ELSE UNION {{<<c>> \o rest : c \in CatalogsOfSize(k), rest \in CatalogSeqsOfSize(n - k)} :
                k \in 1..n}

StoresOfSize(n) ==
    {Response(cs, "ok") : cs \in CatalogSeqsOfSize(n)}
    \cup (IF n >= 1
          THEN {Response(cs, e) : cs \in CatalogSeqsOfSize(n - 1), e \in ListingFailures}
          ELSE {})

StoresUpTo(m) == UNION {StoresOfSize(n) : n \in 0..m}

\* The inventory is a finite sequence of legacy tables; nothing keeps it from
\* listing a table twice.
Inventories == SeqsUpTo(LegacyTables, MaxInventory)

Init ==
    /\ IdleIndex
    /\ IdleProbe
    /\ IdleRefresh
    /\ IdleReaders
    /\ store \in StoresUpTo(MaxNodes)
    /\ inventory \in Inventories
    /\ cpc = "start"
    /\ clock = 1
    /\ seen_tables = <<>>
    /\ remote_calls = <<>>
    /\ reverse_seen = <<>>
    /\ timestamp = None
    /\ pos = 0
    /\ emitted = <<>>
    /\ probes = <<>>
    /\ raised = None

\* _crawl up to its loop (lines 138-140)
CrawlBegin ==
    /\ cpc = "start"
    /\ seen_tables' = get_seen_tables(store)
    /\ remote_calls' = listing_calls(store)
    /\ reverse_seen' = invert(seen_tables')
    /\ timestamp' = clock
    /\ clock' = clock + 1
    /\ cpc' = "loop"
    /\ UNCHANGED <<inventory, store, pos, emitted, probes, raised, ivars, pvars, rvars, tvars>>

\* One iteration of the loop for a table that is no candidate: no live check.
CrawlTableUnseen ==
    /\ cpc = "loop"
    /\ pos < Len(inventory)
    /\ LET table == inventory[pos + 1] IN
       /\ ~is_candidate(table, reverse_seen)
       /\ emitted' = Append(emitted, table_status(table, reverse_seen, timestamp, NoAnswer))
       /\ probes' = Append(probes, NoAnswer)
       /\ remote_calls' = remote_calls \o iteration_calls(store, table, reverse_seen)
    /\ pos' = pos + 1
    /\ clock' = clock + 1
    /\ UNCHANGED <<inventory, store, cpc, seen_tables, reverse_seen, timestamp,
                   raised, ivars, pvars, rvars, tvars>>

\* One iteration of the loop for a candidate: the live check is made, and the
\* legacy store answers it somehow.
CrawlTableSeen ==
    /\ cpc = "loop"
    /\ pos < Len(inventory)
    /\ LET table == inventory[pos + 1] IN
       /\ is_candidate(table, reverse_seen)
       /\ remote_calls' = remote_calls \o iteration_calls(store, table, reverse_seen)
       /\ \E ans \in {Refresher_is_migrated(r) : r \in QueryResponses} :
            IF ans.kind = "raise"
            THEN /\ cpc' = "raised"
                 /\ raised' = ans.error
                 /\ UNCHANGED <<emitted, probes, pos>>
            ELSE /\ emitted' = Append(emitted, table_status(table, reverse_seen, timestamp, ans))
                 /\ probes' = Append(probes, ans)
                 /\ pos' = pos + 1
                 /\ UNCHANGED <<cpc, raised>>
    /\ clock' = clock + 1
    /\ UNCHANGED <<inventory, store, seen_tables, reverse_seen, timestamp,
                   ivars, pvars, rvars, tvars>>

\* The loop is exhausted: the generator returns.
CrawlEnd ==
    /\ cpc = "loop"
    /\ pos = Len(inventory)
    /\ cpc' = "done"
    /\ clock' = clock + 1
    /\ UNCHANGED <<inventory, store, seen_tables, remote_calls, reverse_seen, timestamp, pos,
                   emitted, probes, raised, ivars, pvars, rvars, tvars>>

Next == CrawlBegin \/ CrawlTableUnseen \/ CrawlTableSeen \/ CrawlEnd

Spec == Init /\ [][Next]_vars

(***************************************************************************)
(* TableMigrationStatusRefresher.index over the crawler's snapshot         *)
(***************************************************************************)
\* The answers the live check can give to _crawl.
ProbeAnswers == {Refresher_is_migrated(r) : r \in QueryResponses}

\* The loop of _crawl from inventory table i on, out being what was yielded so far;
\* answers[i] is what the live check does when it is asked about table i.
RECURSIVE crawl_from(_, _, _, _, _, _)
crawl_from(all_tables, rev, ts, answers, i, out) ==
    IF i > Len(all_tables) THEN Return(out)
    ELSE LET table == all_tables[i] IN
         IF is_candidate(table, rev)
         THEN IF answers[i].kind = "raise" THEN Raise(answers[i].error)
              ELSE crawl_from(all_tables, rev, ts, answers, i + 1,
                              Append(out, table_status(table, rev, ts, answers[i])))
         ELSE crawl_from(all_tables, rev, ts, answers, i + 1,
                         Append(out, table_status(table, rev, ts, NoAnswer)))

\* list(self._crawl()): a whole pass at time ts, which returns its records or raises.
crawl(all_tables, st, ts, answers) ==
    crawl_from(all_tables, invert(get_seen_tables(st)), ts, answers, 1, <<>>)

\* CrawlerBase.snapshot(force_refresh), as the Crawler Cache contract has it: the
\* cached records unless there are none or the refresh is forced; otherwise the
\* records of a fresh pass, which replace what was persisted.  loaded is what the
\* pass does if it is run.
CrawlerBase_snapshot(force_refresh, cache, loaded) ==
    IF ~force_refresh /\ cache.exists /\ cache.records # <<>>
    THEN [outcome |-> Return(cache.records), persisted |-> cache, crawled |-> FALSE]
    ELSE IF loaded.kind = "raise"
    THEN [outcome |-> loaded, persisted |-> cache, crawled |-> TRUE]
    ELSE [outcome |-> loaded, persisted |-> StoredTable(loaded.value), crawled |-> TRUE]

\* index() that asks for the snapshot without handing its argument on.
Refresher_index_IgnoreForce(force_refresh, cache, loaded) ==
    LET snap == CrawlerBase_snapshot(FALSE, cache, loaded) IN
    IF snap.outcome.kind = "raise" THEN snap
    ELSE [snap EXCEPT !.outcome = Return(TableMigrationIndex_init(snap.outcome.value))]

\* index(force_refresh): TableMigrationIndex(self.snapshot(force_refresh=force_refresh))
Refresher_index(force_refresh, cache, loaded) ==
    LET snap == CrawlerBase_snapshot(force_refresh, cache, loaded) IN
    IF snap.outcome.kind = "raise" THEN snap
    ELSE [snap EXCEPT !.outcome = Return(TableMigrationIndex_init(snap.outcome.value))]

\* def index(self, *, force_refresh: bool = False)
index_force_refresh_default == FALSE

\* Records that are written into the object that holds their source table
\* already, where there is one, instead of being objects of their own.
new_objects_InPlace(hp, records) ==
    LET same(j) == {a \in DOMAIN hp : /\ hp[a].src_schema = records[j].src_schema
                                       /\ hp[a].src_table = records[j].src_table}
        fresh == {j \in DOMAIN records : same(j) = {}}
        at == [j \in DOMAIN records |->
                 IF j \in fresh
                 THEN Len(hp) + Cardinality({i \in fresh : i <= j})
                 ELSE CHOOSE a \in same(j) : \A b \in same(j) : a <= b]
        written(a) == {j \in DOMAIN records : at[j] = a}
    IN [heap |-> [a \in 1..(Len(hp) + Cardinality(fresh)) |->
                    IF written(a) = {} THEN hp[a]
                    ELSE records[CHOOSE j \in written(a) : \A i \in written(a) : i <= j]],
        at |-> at]

\* The records of a snapshot as objects: each is built by a constructor call of its
\* own, TableMigrationStatus(...) and replace(...) in _crawl, TableMigrationStatus(*row)
\* in _try_fetch, so each is a new object.  at[j] is the address of record j.
new_objects(hp, records) ==
    [heap |-> hp \o records, at |-> [j \in DOMAIN records |-> Len(hp) + j]]

\* __init__ over objects: the dict's values are the objects handed in, not copies.
TableMigrationIndex_init_objects(records, at) ==
    [k \in DOMAIN TableMigrationIndex_init(records) |-> at[LastWithKey(records, k)]]

\* self._index of an instance, its values read from the objects as they are now.
Index_of(instance, hp) == [k \in DOMAIN instance |-> hp[instance[k]]]

\* What index() adds to the instances in use: the one new TableMigrationIndex.
publish(instances, ix) == Append(instances, ix)

\* the index() calls made on one refresher
MaxIndexCalls == 2

\* The metadata stores of this specification: one catalog with one schema, which
\* holds nothing or the table migrated from h.s.t.
RefreshStores ==
    {Response(<<CatalogInfo("MANAGED_CATALOG",
                            Response(<<SchemaInfo(Response(ts, "ok"))>>, "ok"))>>, "ok") :
        ts \in {<<>>, <<MigratedTable>>}}

\* The inventories of this specification: the legacy table S.T stays, alone, with
\* s.u after it, or listed twice.
RefreshInventories ==
    {<<LegacyTable(<<"S">>, <<"T">>)>>,
     <<LegacyTable(<<"S">>, <<"T">>), LegacyTable(<<"s">>, <<"u">>)>>,
     <<LegacyTable(<<"S">>, <<"T">>), LegacyTable(<<"S">>, <<"T">>)>>}

\* index() was not given force_refresh, or was given it.
NoArgument == [given |-> FALSE]

Argument(b) == [given |-> TRUE, value |-> b]

InitRefresh ==
    /\ IdleIndex
    /\ IdleProbe
    /\ IdlePass
    /\ store \in RefreshStores
    /\ inventory \in RefreshInventories
    /\ clock = 1
    /\ persisted = NoTable
    /\ published = <<>>
    /\ passes = <<>>
    /\ rcall = NoCall
    /\ heap = <<>>
    /\ IdleReaders

IndexCallsMade == IF rcall = NoCall THEN 0 ELSE rcall.nth

\* What the live check can do during a pass over all_tables and st: it answers for
\* the candidates, and is not asked about the other tables.
PassAnswers(all_tables, st) ==
    {answers \in [DOMAIN all_tables -> ProbeAnswers \cup {NoAnswer}] :
        \A i \in DOMAIN all_tables :
            answers[i] = NoAnswer <=> ~is_candidate(all_tables[i], invert(get_seen_tables(st)))}

\* refresher.index(), refresher.index(force_refresh=...): one call, with the pass it
\* runs, if it runs one, against the inventory and the stores as they are now.
RefresherIndex ==
    /\ IndexCallsMade < MaxIndexCalls
    /\ \E arg \in {NoArgument, Argument(TRUE), Argument(FALSE)},
            answers \in PassAnswers(inventory, store) :
         LET force_refresh == IF arg.given THEN arg.value ELSE index_force_refresh_default
             loaded == crawl(inventory, store, clock, answers)
             done == Refresher_index(force_refresh, persisted, loaded)
             records == IF done.crawled THEN loaded.value ELSE persisted.records
             objects == new_objects(heap, records)
         IN /\ persisted' = done.persisted
            /\ heap' = IF done.outcome.kind = "return" THEN objects.heap ELSE heap
            /\ published' = IF done.outcome.kind = "return"
                             THEN publish(published,
                                          TableMigrationIndex_init_objects(records, objects.at))
                             ELSE published
            /\ passes' = IF done.crawled
                          THEN Append(passes, [inventory |-> inventory, store |-> store,
                                               answers |-> answers, timestamp |-> clock,
                                               outcome |-> loaded])
                          ELSE passes
            /\ rcall' = [op |-> "index", argument |-> arg, outcome |-> done.outcome,
                         crawled |-> done.crawled, cache |-> persisted,
                         nth |-> IndexCallsMade + 1]
    /\ clock' = clock + 1
    /\ UNCHANGED <<inventory, store, cpc, seen_tables, remote_calls, reverse_seen, timestamp,
                   pos, emitted, probes, raised, ivars, pvars, tvars>>

\* The metadata store changes between two calls.
StoreChanges ==
    /\ store' \in RefreshStores \ {store}
    /\ UNCHANGED <<inventory, cpc, clock, seen_tables, remote_calls, reverse_seen, timestamp,
                   pos, emitted, probes, raised, ivars, pvars, rvars, tvars>>

\* The legacy store changes between two calls: the inventory lists other tables.
InventoryChanges ==
    /\ inventory' \in RefreshInventories \ {inventory}
    /\ UNCHANGED <<store, cpc, clock, seen_tables, remote_calls, reverse_seen, timestamp,
                   pos, emitted, probes, raised, ivars, pvars, rvars, tvars>>

NextRefresh == RefresherIndex \/ StoreChanges \/ InventoryChanges

SpecRefresh == InitRefresh /\ [][NextRefresh]_vars

(***************************************************************************)
(* Claims about TableMigrationIndex (checked under SpecIndex)              *)
(***************************************************************************)
\* The positions of the constructor's records whose source pair is exactly k.
RecordsFor(k) == {i \in DOMAIN tables : <<tables[i].src_schema, tables[i].src_table>> = k}

\* A destination table counts as set when it is neither None nor empty.
IsSet(s) == s # None /\ s # <<>>

\* C1: for every record r of the collection the index was built from,
\* is_migrated(r.src_schema, r.src_table) is true exactly when r.dst_table is set.
C1_IsMigratedIffDstSet ==
    \A i \in DOMAIN tables :
        (/\ call.op = "is_migrated"
         /\ call.schema = tables[i].src_schema
         /\ call.table = tables[i].src_table)
        => (call.result <=> IsSet(tables[i].dst_table))

\* C2: get returns None when no record is stored under the (lower-cased) key and
\* when the stored record has no destination table; what it returns otherwise is
\* the stored record, which has a destination table; on an index built from an
\* empty collection every lookup answers None / not migrated.
C2_GetAbsentUnlessMigrated ==
    /\ call.op = "get" =>
          LET k == <<Lower(call.schema), Lower(call.table)>>
              known == RecordsFor(k) # {}
              last == CHOOSE i \in RecordsFor(k) : \A j \in RecordsFor(k) : j <= i
          IN /\ ~known => call.result = NoStatus
             /\ (known /\ ~IsSet(tables[last].dst_table)) => call.result = NoStatus
             /\ call.result # NoStatus =>
                   (known /\ call.result = tables[last] /\ IsSet(call.result.dst_table))
    /\ (call.op = "is_migrated" /\ tables = <<>>) => call.result = FALSE

\* C2 witness: get on a key whose stored record has no destination table answered None.
C2_Witness ==
    /\ call.op = "get"
    /\ call.result = NoStatus
    /\ \E i \in DOMAIN tables :
          /\ <<tables[i].src_schema, tables[i].src_table>> = <<Lower(call.schema), Lower(call.table)>>
          /\ tables[i].dst_table = None
          /\ Len(tables) = 1

\* C3: a lookup answers what the same lookup with lower-cased arguments answers.
C3_LookupCaseInsensitive ==
    /\ call.op = "get" =>
          call.result = Index_get(index, Lower(call.schema), Lower(call.table))
    /\ call.op = "is_migrated" =>
          call.result = Index_is_migrated(index, Lower(call.schema), Lower(call.table))

\* C3 witness: a lookup with upper-case arguments found the record stored under the
\* lower-case key.
C3_Witness ==
    /\ call.op = "get"
    /\ call.schema = <<"S">> /\ call.table = <<"T">>
    /\ call.result # NoStatus
    /\ call.result.src_schema = <<"s">> /\ call.result.src_table = <<"t">>

(***************************************************************************)
(* Claims about the live check (checked under SpecProbe)                   *)
(***************************************************************************)
\* C6: the live check answers true whenever the legacy store reports the source
\* table as not found, be it when the query is issued or while its rows are read.
C6_NotFoundIsMigrated ==
    (answer # NoAnswer /\ query.response.end = "NotFound") => answer = Return(TRUE)

\* C6 witness: not-found was raised while the rows were read, after a row that
\* reported the marker absent, and the check answered true.
C6_Witness ==
    /\ answer = Return(TRUE)
    /\ query.response = Response(<<AbsentMessage>>, "NotFound")

\* C7: when the store answers without error, the live check is false if every row
\* reports the marker absent (or there is no row) and true if some row carries a value.
C7_MarkerDecides ==
    (answer # NoAnswer /\ query.response.end = "ok") =>
        LET rows == query.response.items IN
        /\ (\A i \in DOMAIN rows : rows[i] = AbsentMessage) => answer = Return(FALSE)
        /\ (\E i \in DOMAIN rows : rows[i] # AbsentMessage) => answer = Return(TRUE)

\* C7 witness: the marker's value came after a row reporting another absence.
C7_Witness ==
    /\ answer = Return(TRUE)
    /\ query.response = Response(<<AbsentMessage, MarkerValue>>, "ok")

(***************************************************************************)
(* Claims about the refresh pass (checked under Spec)                      *)
(***************************************************************************)
\* The pass is over: the generator returned or an exception left it.
PassEnded == cpc \in {"done", "raised"}

\* The scan of the pass has been made.
Scanned == cpc \in {"loop", "done", "raised"}

\* The legacy identity of inventory table i, as the spec defines it.
LegacyKey(i) ==
    Lower(inventory[i].catalog \o <<Dot>> \o inventory[i].database \o <<Dot>> \o inventory[i].name)

\* The destination the inverted map holds for legacy key k.
TargetOf(k) == reverse_seen[CHOOSE j \in DOMAIN reverse_seen : reverse_seen[j][1] = k][2]

InReverseSeen(k) == \E j \in DOMAIN reverse_seen : reverse_seen[j][1] = k

NumberOfDots(s) == Cardinality({j \in DOMAIN s : s[j] = Dot})

Populated(r) == r.dst_catalog # None /\ r.dst_schema # None /\ r.dst_table # None

Unpopulated(r) == r.dst_catalog = None /\ r.dst_schema = None /\ r.dst_table = None

\* C4: a pass that is over has emitted exactly one record per inventory table, in
\* inventory order, each with the lower-cased (database, name) of its table.
C4_OneRecordPerTable ==
    PassEnded =>
        /\ Len(emitted) = Len(inventory)
        /\ \A i \in DOMAIN emitted :
             /\ emitted[i].src_schema = Lower(inventory[i].database)
             /\ emitted[i].src_table = Lower(inventory[i].name)

\* C5: an emitted record has its destination populated exactly when its table's key
\* is in the inverted map, the live check answered true and the mapped destination
\* has three dot-separated parts; the fields are then those parts, in order.
C5_PopulatedIffConfirmed ==
    \A i \in DOMAIN emitted :
        LET r == emitted[i]
            k == LegacyKey(i)
            confirmed == /\ InReverseSeen(k)
                         /\ probes[i] = Return(TRUE)
                         /\ NumberOfDots(TargetOf(k)) = 2
        IN /\ Populated(r) <=> confirmed
           /\ ~Populated(r) => Unpopulated(r)
           /\ Populated(r) =>
                /\ r.dst_catalog \o <<Dot>> \o r.dst_schema \o <<Dot>> \o r.dst_table = TargetOf(k)
                /\ NumberOfDots(r.dst_catalog) = 0
                /\ NumberOfDots(r.dst_schema) = 0
                /\ NumberOfDots(r.dst_table) = 0

\* C5 witness: of two candidates, the one the live check confirmed was emitted with
\* its destination and the one whose marker was reported absent without.
C5_Witness ==
    \E i, j \in DOMAIN emitted :
        /\ probes[i] = Return(TRUE) /\ Populated(emitted[i])
        /\ emitted[i].dst_catalog = <<"c">>
        /\ InReverseSeen(LegacyKey(j)) /\ NumberOfDots(TargetOf(LegacyKey(j))) = 2
        /\ probes[j] = Return(FALSE) /\ Unpopulated(emitted[j])

\* C8: a pass never raises, whatever fails remotely (catalog, schema and table
\* listings, the live check), and ends with one record per legacy table.
C8_RefreshNeverRaises ==
    /\ cpc # "raised"
    /\ cpc = "done" => Len(emitted) = Len(inventory)

\* The positions <<c, s, t>> of the objects the scan is handed: those of the
\* catalogs listed that are no system catalogs, in the schemas their listings
\* yielded, where the table listing succeeded.
ListedObjects ==
    {p \in UNION {UNION {{<<c, sc, t>> :
                            t \in DOMAIN store.items[c].schemas.items[sc].tables.items} :
                         sc \in DOMAIN store.items[c].schemas.items} :
                  c \in DOMAIN store.items} :
        /\ store.items[p[1]].catalog_type # "SYSTEM_CATALOG"
        /\ store.items[p[1]].schemas.items[p[2]].tables.end = "ok"}

ObjectAt(p) == store.items[p[1]].schemas.items[p[2]].tables.items[p[3]]

\* The object carries the back-reference and has a full name.
BackReferences(o) ==
    /\ o.properties # NoDict
    /\ \E j \in DOMAIN o.properties : o.properties[j][1] = UpgradedFrom
    /\ o.full_name # None /\ o.full_name # <<>>

BackReferenceOf(o) ==
    o.properties[CHOOSE j \in DOMAIN o.properties : o.properties[j][1] = UpgradedFrom][2]

\* The entry the object stands for in the seen-table map.
EntryOf(o) == <<Lower(o.full_name), Lower(BackReferenceOf(o))>>

InSeenTables(k) == \E j \in DOMAIN seen_tables : seen_tables[j][1] = k

\* The schema listing of a catalog that is scanned failed.
SchemaListingFailed(c) ==
    /\ store.items[c].catalog_type # "SYSTEM_CATALOG"
    /\ store.items[c].schemas.end # "ok"

\* Some other catalog is healthy enough to hand the scan a back-referencing object.
OthersMatch(c) ==
    \E p \in ListedObjects : p[1] # c /\ BackReferences(ObjectAt(p))

\* C9: when the schema listing of one of several catalogs fails, the map still has
\* the entry of every back-referencing object of the other catalogs, and the pass
\* still ends with a record for every legacy table, the matches from the other
\* catalogs intact.
C9_DeadCatalogTolerated ==
    \A c \in DOMAIN store.items :
        (SchemaListingFailed(c) /\ OthersMatch(c) /\ PassEnded) =>
            /\ \A p \in ListedObjects :
                 (p[1] # c /\ BackReferences(ObjectAt(p))) => InSeenTables(EntryOf(ObjectAt(p))[1])
            /\ Len(emitted) = Len(inventory)
            /\ \A i \in DOMAIN emitted, p \in ListedObjects :
                 (/\ p[1] # c
                  /\ BackReferences(ObjectAt(p))
                  /\ EntryOf(ObjectAt(p))[2] = LegacyKey(i))
                 => /\ InReverseSeen(LegacyKey(i))
                    /\ (probes[i] = Return(TRUE) /\ NumberOfDots(TargetOf(LegacyKey(i))) = 2)
                         => Populated(emitted[i])

\* The table listing of a schema that is scanned failed.
TableListingFailed(c, sc) ==
    /\ store.items[c].catalog_type # "SYSTEM_CATALOG"
    /\ store.items[c].schemas.items[sc].tables.end # "ok"

\* C10: when the table listing of a schema fails, that schema contributes no entry
\* and the scan goes on: the map has the entry of every back-referencing object of
\* the schemas listed, and every entry of the map is that of such an object.
C10_DeadSchemaSkipped ==
    (/\ Scanned
     /\ \E c \in DOMAIN store.items : \E sc \in DOMAIN store.items[c].schemas.items :
            TableListingFailed(c, sc))
    => /\ \A p \in ListedObjects :
            BackReferences(ObjectAt(p)) => InSeenTables(EntryOf(ObjectAt(p))[1])
       /\ \A j \in DOMAIN seen_tables :
            \E p \in ListedObjects :
                BackReferences(ObjectAt(p)) /\ EntryOf(ObjectAt(p)) = seen_tables[j]

\* C10 witness: a table listing failed after yielding a back-referencing object,
\* which is not in the map, and a later schema of the same catalog is.
C10_Witness ==
    /\ Scanned
    /\ \E c \in DOMAIN store.items : \E s1, s2 \in DOMAIN store.items[c].schemas.items :
         /\ s1 < s2
         /\ TableListingFailed(c, s1)
         /\ store.items[c].schemas.items[s1].tables.items = <<TwoPartTable>>
         /\ store.items[c].schemas.items[s2].tables = Response(<<MigratedTable>>, "ok")
    /\ seen_tables = <<EntryOf(MigratedTable)>>

\* C11: a candidate the live check confirmed whose mapped destination does not split
\* into exactly three parts (fewer or more) is emitted with no destination field set.
C11_MalformedDestinationUnmigrated ==
    \A i \in DOMAIN emitted :
        (/\ InReverseSeen(LegacyKey(i))
         /\ probes[i] = Return(TRUE)
         /\ Len(Split(TargetOf(LegacyKey(i)))) # 3)
        => Unpopulated(emitted[i])

\* C11 witness: one confirmed candidate maps to a destination of two parts and
\* another to one of four parts, and both were emitted without destination.
C11_Witness ==
    \E i, j \in DOMAIN emitted :
        /\ probes[i] = Return(TRUE) /\ probes[j] = Return(TRUE)
        /\ InReverseSeen(LegacyKey(i)) /\ InReverseSeen(LegacyKey(j))
        /\ Len(Split(TargetOf(LegacyKey(i)))) = 2
        /\ Len(Split(TargetOf(LegacyKey(j)))) = 4
        /\ Unpopulated(emitted[i]) /\ Unpopulated(emitted[j])

\* The positions <<c, sc>> of the schemas that catalogs of no system type hold.
OpenSchemas ==
    {q \in UNION {{<<c, sc>> : sc \in DOMAIN store.items[c].schemas.items} :
                  c \in DOMAIN store.items} :
        store.items[q[1]].catalog_type # "SYSTEM_CATALOG"}

CallsOf(op) == {j \in DOMAIN remote_calls : remote_calls[j].op = op}

\* C12: the scan asks for the schemas of no system catalog and for the tables of no
\* schema of one (it lists the schemas of the other catalogs and their tables, and
\* nothing else), and every entry of the seen-table map is that of an object of a
\* catalog that is no system catalog.
C12_SystemCatalogsNeverListed ==
    Scanned =>
        /\ \A j \in CallsOf("schemas.list") :
             remote_calls[j].catalog.catalog_type # "SYSTEM_CATALOG"
        /\ Cardinality(CallsOf("schemas.list"))
             = Cardinality({c \in DOMAIN store.items :
                               store.items[c].catalog_type # "SYSTEM_CATALOG"})
        /\ Cardinality(CallsOf("tables.list")) = Cardinality(OpenSchemas)
        /\ \A j \in DOMAIN seen_tables :
             \E p \in ListedObjects :
                 BackReferences(ObjectAt(p)) /\ EntryOf(ObjectAt(p)) = seen_tables[j]

\* C12 witness: a system catalog holds a back-referencing object, and the scan
\* listed the catalogs and the schemas of another catalog only, and came back with
\* an empty map.
C12_Witness ==
    /\ Scanned
    /\ \E c \in DOMAIN store.items :
         /\ store.items[c].catalog_type = "SYSTEM_CATALOG"
         /\ store.items[c].schemas = Response(<<SchemaInfo(Response(<<MigratedTable>>, "ok"))>>, "ok")
    /\ Len(remote_calls) = 2
    /\ seen_tables = <<>>

\* No listing the scan makes fails.
FailureFree ==
    /\ store.end = "ok"
    /\ \A c \in DOMAIN store.items :
         store.items[c].catalog_type # "SYSTEM_CATALOG" =>
            /\ store.items[c].schemas.end = "ok"
            /\ \A sc \in DOMAIN store.items[c].schemas.items :
                 store.items[c].schemas.items[sc].tables.end = "ok"

\* Object p is scanned no later than object q.
NoLater(p, q) ==
    \/ p[1] < q[1]
    \/ p[1] = q[1] /\ p[2] < q[2]
    \/ p[1] = q[1] /\ p[2] = q[2] /\ p[3] <= q[3]

\* The objects the scan records: those handed to it that carry the back-reference
\* property and have a full name.
Recorded == {p \in ListedObjects : BackReferences(ObjectAt(p))}

\* C13: after a failure-free scan the map has exactly one entry per lower-cased full
\* name of the recorded objects (those of non-system catalogs that carry the
\* back-reference property and have a full name), and the entry's value is the
\* lower-cased property value of the object with that key that was scanned last.
C13_SeenTablesExact ==
    (Scanned /\ FailureFree) =>
        /\ \A p \in Recorded : InSeenTables(EntryOf(ObjectAt(p))[1])
        /\ \A j \in DOMAIN seen_tables :
             \E p \in Recorded :
                 /\ EntryOf(ObjectAt(p)) = seen_tables[j]
                 /\ \A q \in Recorded :
                      EntryOf(ObjectAt(q))[1] = seen_tables[j][1] => NoLater(q, p)
        /\ \A j, k \in DOMAIN seen_tables :
             seen_tables[j][1] = seen_tables[k][1] => j = k

\* C13 witness: two objects of a schema share the key c.s.u, a third carries no
\* property, and the map holds the value of the second alone.
C13_Witness ==
    /\ Scanned /\ FailureFree
    /\ \E c \in DOMAIN store.items : \E sc \in DOMAIN store.items[c].schemas.items :
         /\ store.items[c].catalog_type # "SYSTEM_CATALOG"
         /\ store.items[c].schemas.items[sc].tables.items
              = <<UpperCaseTable, RemigratedTable, PlainTable>>
    /\ seen_tables = <<EntryOf(RemigratedTable)>>

\* C15: no two records emitted by a pass share their (src_schema, src_table) pair.
C15_SourcePairUnique ==
    \A i, j \in DOMAIN emitted :
        (emitted[i].src_schema = emitted[j].src_schema
         /\ emitted[i].src_table = emitted[j].src_table) => i = j

\* C16: every record a pass emits, migrated or not, carries the same update_ts: the
\* text of the time taken once when the pass began, which is neither None nor empty.
C16_SharedTimestamp ==
    \A i \in DOMAIN emitted :
        /\ emitted[i].update_ts = Str(timestamp)
        /\ emitted[i].update_ts # None
        /\ emitted[i].update_ts # <<>>
        /\ \A j \in DOMAIN emitted : emitted[j].update_ts = emitted[i].update_ts

\* C16 witness: a migrated and an unmigrated record were emitted at different times
\* of the clock and carry the time the pass began.
C16_Witness ==
    /\ cpc = "done"
    /\ clock > timestamp + 2
    /\ \E i, j \in DOMAIN emitted :
         /\ Populated(emitted[i]) /\ Unpopulated(emitted[j])
         /\ emitted[i].update_ts = <<"1", Dot, "0">>
         /\ emitted[j].update_ts = <<"1", Dot, "0">>

\* The index a fresh construction from the same collection gives.
FreshIndex == TableMigrationIndex_init(tables)

\* C18: however the calls of the readers of a constructed index interleave, the
\* mapping is the one the index was constructed with, and every call that has
\* returned gave what it gives when made alone on the freshly constructed index.
C18_LookupsHaveNoEffect ==
    ipc = "ready" =>
        /\ index = FreshIndex
        /\ \A r \in Readers :
             readers[r].pc = "done" =>
                /\ readers[r].op = "get" =>
                      readers[r].result
                        = Index_get(FreshIndex, readers[r].schema, readers[r].table)
                /\ readers[r].op = "is_migrated" =>
                      readers[r].result
                        = Index_is_migrated(FreshIndex, readers[r].schema, readers[r].table)
                /\ readers[r].op = "snapshot" =>
                      readers[r].result = Index_snapshot(FreshIndex)

\* C18 witness: a get read the mapping while an is_migrated about the same table,
\* by another reader, was between its read and its return; both found the
\* migrated record.
C18_Witness ==
    \E r, q \in Readers :
        /\ r # q
        /\ readers[r].pc = "done" /\ readers[q].pc = "done"
        /\ readers[r].op = "get" /\ readers[q].op = "is_migrated"
        /\ q \in readers[r].amid
        /\ Lower(readers[r].schema) = Lower(readers[q].schema)
        /\ Lower(readers[r].table) = Lower(readers[q].table)
        /\ readers[r].result # NoStatus
        /\ readers[q].result

\* C20: on a record whose three destination fields are set, destination() returns
\* the three fields lower-cased and joined by dots, whatever their casing.
C20_DestinationLowerCased ==
    (/\ call.op = "destination"
     /\ call.record.dst_catalog # None
     /\ call.record.dst_schema # None
     /\ call.record.dst_table # None)
    => /\ Split(call.result) = <<Lower(call.record.dst_catalog),
                                 Lower(call.record.dst_schema),
                                 Lower(call.record.dst_table)>>
       /\ Len(call.result) = Len(call.record.dst_catalog) + Len(call.record.dst_schema)
                               + Len(call.record.dst_table) + 2
       /\ \A i \in DOMAIN call.result : call.result[i] \notin {"C", "S", "T"}

\* C20 witness: destination() of a record with upper-case fields.
C20_Witness ==
    /\ call.op = "destination"
    /\ call.record.dst_catalog = <<"C">>
    /\ call.record.dst_schema = <<"S">>
    /\ call.record.dst_table = <<"T", "u">>
    /\ call.result = <<"c", Dot, "s", Dot, "t", "u">>

(***************************************************************************)
(* Claims about index() and repeated passes (checked under SpecRefresh)    *)
(***************************************************************************)
\* The records of a pass without their update_ts.
Tuples(records) ==
    [i \in DOMAIN records |->
        <<records[i].src_schema, records[i].src_table, records[i].dst_catalog,
          records[i].dst_schema, records[i].dst_table>>]

SameInputs(p, q) ==
    /\ passes[p].inventory = passes[q].inventory
    /\ passes[p].store = passes[q].store
    /\ passes[p].answers = passes[q].answers

\* C14: two passes over the same inventory, the same metadata store and the same
\* answers of the live check emit records that agree in everything but update_ts.
C14_RefreshIdempotent ==
    \A p, q \in DOMAIN passes :
        (/\ SameInputs(p, q)
         /\ passes[p].outcome.kind = "return"
         /\ passes[q].outcome.kind = "return")
        => Tuples(passes[p].outcome.value) = Tuples(passes[q].outcome.value)

\* C14 witness: two passes at different times over the same inputs emitted a
\* migrated and an unmigrated record each, with different update_ts.
C14_Witness ==
    /\ Len(passes) = 2
    /\ SameInputs(1, 2)
    /\ passes[1].outcome.kind = "return" /\ passes[2].outcome.kind = "return"
    /\ Len(passes[1].outcome.value) = 2
    /\ \E i, j \in DOMAIN passes[1].outcome.value :
         /\ Populated(passes[1].outcome.value[i])
         /\ Unpopulated(passes[1].outcome.value[j])
    /\ passes[1].outcome.value[1].update_ts # passes[2].outcome.value[1].update_ts

\* The pass the last index() call ran.
LastPass == passes[Len(passes)]

\* C17: index(force_refresh=True) runs a pass whatever is cached, and when it
\* returns, the index it returns and the records persisted are those of that pass
\* alone; index() without argument does what index(force_refresh=False) does: with
\* records cached it runs no pass and returns the index over the cached records.
C17_ForcedIndexIsFresh ==
    rcall.op = "index" =>
        /\ rcall.argument = Argument(TRUE) =>
              /\ rcall.crawled
              /\ LastPass.timestamp = clock - 1
              /\ rcall.outcome.kind = LastPass.outcome.kind
              /\ rcall.outcome.kind = "return" =>
                    /\ rcall.outcome.value = TableMigrationIndex_init(LastPass.outcome.value)
                    /\ persisted = StoredTable(LastPass.outcome.value)
        /\ (/\ rcall.argument \in {NoArgument, Argument(FALSE)}
            /\ rcall.cache.exists
            /\ rcall.cache.records # <<>>) =>
              /\ ~rcall.crawled
              /\ rcall.outcome = Return(TableMigrationIndex_init(rcall.cache.records))
              /\ persisted = rcall.cache

\* C17 witness: a forced index() found one unmigrated record cached and left one
\* migrated record persisted, of which the returned index answers.
C17_Witness ==
    /\ rcall.op = "index"
    /\ rcall.argument = Argument(TRUE)
    /\ rcall.cache.exists
    /\ Len(rcall.cache.records) = 1 /\ Unpopulated(rcall.cache.records[1])
    /\ rcall.outcome.kind = "return"
    /\ Len(persisted.records) = 1 /\ Populated(persisted.records[1])
    /\ Index_is_migrated(rcall.outcome.value, <<"S">>, <<"T">>)

\* The names lookups are made with.
LookupSchemas == {<<"s">>, <<"S">>}

LookupTables == {<<"t">>, <<"T">>, <<"u">>, <<"U">>}

\* C19: whatever happens after an index instance has been returned (changes of the
\* inventory or of the metadata store, later index() calls, forced or not), the
\* instance keeps its keys and gives every lookup the answer it gave before.
C19_IndexIsPointInTime ==
    [][\A i \in DOMAIN published :
          /\ i \in DOMAIN published'
          /\ Index_snapshot(Index_of(published'[i], heap'))
               = Index_snapshot(Index_of(published[i], heap))
          /\ \A sc \in LookupSchemas, t \in LookupTables :
               Index_get(Index_of(published'[i], heap'), sc, t)
                 = Index_get(Index_of(published[i], heap), sc, t)]_vars

\* C19 witness: after a change of the metadata store and a forced index(), the
\* instance returned first still answers that s.t is not migrated and the new one
\* answers that it is.
C19_Witness ==
    /\ Len(published) = 2
    /\ rcall.argument = Argument(TRUE)
    /\ ~Index_is_migrated(Index_of(published[1], heap), <<"s">>, <<"t">>)
    /\ <<<<"s">>, <<"t">>>> \in Index_snapshot(Index_of(published[1], heap))
    /\ Index_is_migrated(Index_of(published[2], heap), <<"s">>, <<"t">>)

(***************************************************************************)
(* Further claims about TableMigrationIndex (checked under SpecIndex)      *)
(***************************************************************************)
\* The lower-cased source pair of the constructor's record i.
LoweredPair(i) == <<Lower(tables[i].src_schema), Lower(tables[i].src_table)>>

\* C22: the mapping of a constructed index is keyed by the lower-cased
\* (src_schema, src_table) of the records supplied, whatever their casing, so that a
\* record with a set destination table, the only one of its lower-cased pair, is
\* found by get and is_migrated under any casing of its schema and table.
C22_KeysLowerCased ==
    ipc = "ready" =>
        /\ DOMAIN index = {LoweredPair(i) : i \in DOMAIN tables}
        /\ \A i \in DOMAIN tables :
             (/\ call.op \in {"get", "is_migrated"}
              /\ <<Lower(call.schema), Lower(call.table)>> = LoweredPair(i)
              /\ IsSet(tables[i].dst_table)
              /\ \A j \in DOMAIN tables : LoweredPair(j) = LoweredPair(i) => j = i)
             => /\ call.op = "get" => call.result = tables[i]
                /\ call.op = "is_migrated" => call.result = TRUE

(***************************************************************************)
(* Further claims about the refresh pass (checked under Spec)              *)
(***************************************************************************)
\* The positions in the log of the listings of the metadata store and of the
\* queries of the live check.
Listings == CallsOf("catalogs.list") \cup CallsOf("schemas.list") \cup CallsOf("tables.list")

Fetches == CallsOf("fetch")

\* The inventory tables the loop has dealt with, the one whose live check raised included.
Taken == 1..(IF cpc = "raised" THEN pos + 1 ELSE pos)

\* C23: a pass scans the metadata store once (one listing of the catalogs, and every
\* listing before the first query of the live check); nothing is probed or emitted
\* before the scan is over, no listing is made between or after the probes, and the
\* map the loop uses stays the inverse of what that one scan returned.
C23_ScanOnceBeforeProbes ==
    /\ ~Scanned => remote_calls = <<>> /\ emitted = <<>> /\ probes = <<>>
    /\ Scanned =>
          /\ Cardinality(CallsOf("catalogs.list")) = 1
          /\ \A l \in Listings, f \in Fetches : l < f
          /\ SubSeq(remote_calls, 1, Cardinality(Listings)) = listing_calls(store)
          /\ reverse_seen = invert(seen_tables)
          /\ seen_tables = get_seen_tables(store)

\* C23 witness: a pass over two candidates is done, with both probes after the
\* listings of a store of two schemas.
C23_Witness ==
    /\ cpc = "done"
    /\ Cardinality(Fetches) = 2
    /\ Cardinality(CallsOf("tables.list")) = 2
    /\ Len(seen_tables) = 2
    /\ Len(emitted) = 2

\* The inventory tables whose key is in the inverted map.
Candidates == {i \in DOMAIN inventory : InReverseSeen(LegacyKey(i))}

\* The queries of the live check about inventory table i.
FetchesFor(i) ==
    {f \in Fetches : /\ remote_calls[f].schema = Lower(inventory[i].database)
                     /\ remote_calls[f].table = Lower(inventory[i].name)}

\* C24: in a pass that is over, the live check was asked exactly once about every
\* inventory table whose key is in the inverted map and about no other table, so
\* there are as many probes as candidates in the inventory.
C24_OneProbePerCandidate ==
    PassEnded =>
        /\ \A i \in DOMAIN inventory :
             Cardinality(FetchesFor(i)) = (IF i \in Candidates THEN 1 ELSE 0)
        /\ \A f \in Fetches : \E i \in Candidates : f \in FetchesFor(i)
        /\ Cardinality(Fetches) = Cardinality(Candidates)

\* The object carries the back-reference property but has no full name.
Nameless(o) ==
    /\ o.properties # NoDict
    /\ \E j \in DOMAIN o.properties : o.properties[j][1] = UpgradedFrom
    /\ (o.full_name = None \/ o.full_name = <<>>)

\* C25: an object handed to the scan that carries the back-reference property but
\* has no full name adds no entry to the map (every entry is that of an object with
\* a full name, at most one entry per such object) and does not stop the scan: the
\* objects of its schema with a back-reference and a full name, before and after
\* it, have their entries.
C25_NamelessObjectSkipped ==
    Scanned =>
        \A p \in ListedObjects :
            Nameless(ObjectAt(p)) =>
                /\ \A j \in DOMAIN seen_tables :
                     \E q \in Recorded : EntryOf(ObjectAt(q))[1] = seen_tables[j][1]
                /\ Len(seen_tables) <= Cardinality(Recorded)
                /\ \A q \in Recorded :
                     (q[1] = p[1] /\ q[2] = p[2]) => InSeenTables(EntryOf(ObjectAt(q))[1])

\* C25 witness: a schema lists an object without full name between two that have
\* one, and the map has the entries of these two alone.
C25_Witness ==
    /\ Scanned
    /\ \E c \in DOMAIN store.items : \E sc \in DOMAIN store.items[c].schemas.items :
         /\ store.items[c].catalog_type # "SYSTEM_CATALOG"
         /\ store.items[c].schemas.items[sc].tables
              = Response(<<MigratedTable, NamelessTable, UpperCaseTable>>, "ok")
    /\ seen_tables = <<EntryOf(MigratedTable), EntryOf(UpperCaseTable)>>

\* The index built over the records emitted so far.
EmittedIndex == TableMigrationIndex_init(emitted)

\* All three destination fields hold a value, none of them None or empty.
AllSet(r) == IsSet(r.dst_catalog) /\ IsSet(r.dst_schema) /\ IsSet(r.dst_table)

\* C26: every record a pass emits has its three destination fields all set or all
\* unset, and the index over the emitted records reports its table as not migrated
\* exactly when they are all unset.
C26_DestinationAllOrNothing ==
    \A i \in DOMAIN emitted :
        /\ AllSet(emitted[i]) \/ Unpopulated(emitted[i])
        /\ ~Index_is_migrated(EmittedIndex, emitted[i].src_schema, emitted[i].src_table)
             <=> Unpopulated(emitted[i])

\* C27: for every emitted record with its destination fields populated,
\* destination() is the key of an entry of the seen-table map whose value is the
\* key of the record's legacy table.
C27_DestinationRoundTrip ==
    \A i \in DOMAIN emitted :
        Populated(emitted[i]) =>
            \E j \in DOMAIN seen_tables :
                /\ seen_tables[j][2] = Table_key(inventory[i])
                /\ seen_tables[j][1] = TableMigrationStatus_destination(emitted[i])

\* C27 witness: the object C.S.U, upgraded from H.S.U, is in the map in lower case,
\* and the record of the legacy table s.u has the destination c.s.u.
C27_Witness ==
    /\ seen_tables = <<EntryOf(UpperCaseTable)>>
    /\ \E i \in DOMAIN emitted :
         /\ Populated(emitted[i])
         /\ emitted[i].src_table = <<"u">>
         /\ TableMigrationStatus_destination(emitted[i]) = <<"c", Dot, "s", Dot, "u">>
         /\ Table_key(inventory[i]) = <<"h", Dot, "s", Dot, "u">>

\* The store with the same catalogs, schemas and objects and no failing listing.
FailureFreeStore ==
    Response([c \in DOMAIN store.items |->
                 [store.items[c] EXCEPT
                     !.schemas = Response([sc \in DOMAIN store.items[c].schemas.items |->
                                              [store.items[c].schemas.items[sc] EXCEPT
                                                  !.tables.end = "ok"]],
                                          "ok")]],
             "ok")

\* What a scan of that store returns.
FailureFreeSeen == get_seen_tables(FailureFreeStore)

\* The legacy keys a map holds.
LegacyKeysOf(seen) == {seen[j][2] : j \in DOMAIN seen}

\* C28 as stated: under any pattern of listing failures, every entry of the map is
\* that of an object listed in a catalog of no system type that carries the
\* back-reference, and the legacy keys of the map are among those of the map a
\* failure-free scan of the same store returns.
C28_FailuresOnlyLoseCandidates ==
    Scanned =>
        /\ \A j \in DOMAIN seen_tables :
             \E p \in Recorded : EntryOf(ObjectAt(p)) = seen_tables[j]
        /\ LegacyKeysOf(seen_tables) \subseteq LegacyKeysOf(FailureFreeSeen)

\* The objects of catalogs of no system type that are in the store but were not
\* handed to the scan, because the table listing of their schema failed.
HiddenObjects ==
    {p \in UNION {UNION {{<<c, sc, t>> :
                            t \in DOMAIN store.items[c].schemas.items[sc].tables.items} :
                         sc \in DOMAIN store.items[c].schemas.items} :
                  c \in DOMAIN store.items} :
        /\ store.items[p[1]].catalog_type # "SYSTEM_CATALOG"
        /\ store.items[p[1]].schemas.items[p[2]].tables.end # "ok"}

\* C28 amended: every entry of the map is that of an object listed in a catalog of
\* no system type that carries the back-reference; the destination keys of the map
\* are among those of the failure-free map, and an entry is an entry of the
\* failure-free map unless a failure hid an object with the same destination key.
C28_FailuresLoseOrUnmask ==
    Scanned =>
        /\ \A j \in DOMAIN seen_tables :
             \E p \in Recorded : EntryOf(ObjectAt(p)) = seen_tables[j]
        /\ \A j \in DOMAIN seen_tables :
             /\ \E k \in DOMAIN FailureFreeSeen : FailureFreeSeen[k][1] = seen_tables[j][1]
             /\ \/ \E k \in DOMAIN FailureFreeSeen : FailureFreeSeen[k] = seen_tables[j]
                \/ \E h \in HiddenObjects :
                      /\ BackReferences(ObjectAt(h))
                      /\ EntryOf(ObjectAt(h))[1] = seen_tables[j][1]

\* C28 witness: a table listing failed after yielding a back-referencing object; the
\* map has one entry, an entry of the failure-free map, which has two.
C28_Witness ==
    /\ Scanned
    /\ ~FailureFree
    /\ Len(seen_tables) = 1
    /\ Len(FailureFreeSeen) = 2
    /\ FailureFreeSeen[2] = seen_tables[1]
    /\ \E h \in HiddenObjects : EntryOf(ObjectAt(h)) = FailureFreeSeen[1]

\* The listing of the catalogs failed, at once or after it had yielded catalogs.
CatalogListingFailed == store.end # "ok"

\* The legacy key is the value of some entry of the seen-table map.
Referenced(k) == \E j \in DOMAIN seen_tables : seen_tables[j][2] = k

\* C29: when the listing of the catalogs fails with a remote error, at once or
\* part-way, the scan still returns: the map holds the entries of the objects of
\* the catalogs listed before the failure (none if there is none), and the pass ends
\* with every legacy table that no such object refers to emitted as not migrated,
\* without a probe.
C29_CatalogListingFailureTolerated ==
    CatalogListingFailed =>
        /\ Scanned =>
             /\ \A p \in Recorded : InSeenTables(EntryOf(ObjectAt(p))[1])
             /\ \A j \in DOMAIN seen_tables :
                  \E p \in Recorded : EntryOf(ObjectAt(p)) = seen_tables[j]
             /\ store.items = <<>> => seen_tables = <<>>
        /\ PassEnded =>
             \A i \in DOMAIN inventory :
                 ~Referenced(LegacyKey(i)) =>
                     /\ i \in DOMAIN emitted
                     /\ Unpopulated(emitted[i])
                     /\ probes[i] = NoAnswer

\* The positions of the entries of the seen-table map whose value is legacy key k.
EntriesFor(k) == {j \in DOMAIN seen_tables : seen_tables[j][2] = k}

\* The last of them in the map's iteration order.
LastEntryFor(k) == CHOOSE j \in EntriesFor(k) : \A l \in EntriesFor(k) : l <= j

\* C30: when several entries of the seen-table map have the same legacy key as
\* value, the inverted map has one entry for that key, with the destination of the
\* entry that comes last in the map's order; the record of a confirmed legacy table
\* is populated exactly when that destination has three parts, and then with its
\* parts, whatever the other destinations are.
C30_LastDestinationWins ==
    Scanned =>
        /\ \A j, l \in DOMAIN reverse_seen : reverse_seen[j][1] = reverse_seen[l][1] => j = l
        /\ \A j \in DOMAIN seen_tables :
             LET k == seen_tables[j][2] IN
             /\ InReverseSeen(k)
             /\ TargetOf(k) = seen_tables[LastEntryFor(k)][1]
        /\ \A i \in DOMAIN emitted :
             LET k == LegacyKey(i) IN
             (EntriesFor(k) # {} /\ probes[i] = Return(TRUE)) =>
                 LET parts == Split(seen_tables[LastEntryFor(k)][1]) IN
                 /\ Populated(emitted[i]) <=> Len(parts) = 3
                 /\ Populated(emitted[i]) =>
                      <<emitted[i].dst_catalog, emitted[i].dst_schema, emitted[i].dst_table>>
                          = parts

\* C30 witness: c.s.t and then s.t refer to h.s.t; the live check confirmed the
\* legacy table, and its record has no destination because s.t comes last.
C30_Witness ==
    /\ seen_tables = <<EntryOf(MigratedTable), EntryOf(TwoPartTable)>>
    /\ \E i \in DOMAIN emitted :
         /\ LegacyKey(i) = <<"h", Dot, "s", Dot, "t">>
         /\ probes[i] = Return(TRUE)
         /\ Unpopulated(emitted[i])

====
